---- MODULE Spec2Model ----
(***************************************************************************)
(* Download admission, concurrency slots, job lifecycle and subscription   *)
(* state of beast_downloader_bot (Telegram handlers + Redis counters +     *)
(* Mongo documents + Celery tasks).                                        *)
(*                                                                         *)
(* Interleaving points are the awaits on Redis / Mongo / Celery: the bot   *)
(* runs with concurrent_updates(True) (bot.py:74) and the Celery workers   *)
(* are separate processes, so handlers and tasks interleave between any    *)
(* two storage commands.  Every Redis command is atomic on its own.        *)
(***************************************************************************)
EXTENDS Integers, Sequences, FiniteSets, TLC

(***************************************************************************)
(* Bounds of the model.                                                    *)
(***************************************************************************)
MaxJobs == 2
\* Celery retries explored in one behaviour (a task allows max_retries).
MaxRetry == 1
\* Download requests in a behaviour of Spec, which has every operation
\* (MaxJobs requests are made in SpecTwo, which leaves some out).
MaxFull == 1
\* Latest day the clock reaches.
MaxNow == 1
\* Payments waiting for the admin in a behaviour of SpecSub.
MaxPayments == 2
\* Days a running subscription still has at the start of SpecSub.
DaysLeft == 10
\* Downloads recorded in the SQL table on top of the starting usage.
MaxSqlUsed == 2
\* Downloads that are queued in SpecQueue.
MaxQueued == 3
\* Confirmations of one payment by admins.
MaxConfirm == 2
\* Calls of check_rate_limit by one user for one action, the largest limit
\* they are checked against, and the windows (lifetimes of the key) they
\* fall into.
MaxCalls == 3
\* Downloads one user of the SQL bot starts.
MaxStarted == 4
MaxLimit == 2
MaxWindows == 2

(***************************************************************************)
(* Program constants.                                                      *)
(***************************************************************************)
\* @celery_app.task(max_retries=3) of process_download_task
max_retries == 3
\* Optional[datetime] = None of User.subscription_expires
NoExpiry == -1

Users == {101}
\* Telegram users that can press a download's cancel button: its owner and
\* another member of the chat.
Requesters == Users \cup {202}
NoUser == 0
Jobs == 1..MaxJobs
Payments == 1..MaxPayments
QJobs == 1..MaxQueued
Tiers == {"free", "bronze", "silver", "gold"}

\* subscription_config.plans; 30 is what plan.get('duration_days', 30) reads
\* for the free plan, which has no such key.  max_file_size is in units of
\* 1024 * 1024 bytes.
plans ==
  [free   |-> [daily_limit |-> 5,   max_duration |-> 600,  concurrent_downloads |-> 1, duration_days |-> 30,
               max_file_size |-> 50],
   bronze |-> [daily_limit |-> 50,  max_duration |-> 1800, concurrent_downloads |-> 2, duration_days |-> 30,
               max_file_size |-> 200],
   silver |-> [daily_limit |-> 150, max_duration |-> 3600, concurrent_downloads |-> 3, duration_days |-> 30,
               max_file_size |-> 500],
   gold   |-> [daily_limit |-> -1,  max_duration |-> -1,   concurrent_downloads |-> 5, duration_days |-> 30,
               max_file_size |-> 2048]]

\* DownloadStatus
PENDING == "pending"
PROCESSING == "processing"
COMPLETED == "completed"
FAILED == "failed"
CANCELLED == "cancelled"
Terminal == {COMPLETED, FAILED, CANCELLED}

\* A download that create_download has not inserted yet.
NoDoc == [status |-> "absent", task_id |-> FALSE]

VARIABLES
  now,                   \* wall clock, in days (datetime.now())
  subscription,          \* users.subscription          (Mongo)
  subscription_expires,  \* users.subscription_expires  (Mongo)
  concurrent,            \* Redis key concurrent:<user_id>; an absent key reads 0
  downloads_count,       \* Redis hash activity:<user_id>:<date>, field downloads_count
  downloads,             \* Mongo collection downloads: job -> document
  download_queue,        \* Redis sorted sets download_queue:<priority>, in score order
  broker,                \* Celery broker: a process_download_task message waits for job
  revoked,               \* task ids revoked through celery_app.control.revoke
  cb,                    \* handle_download_callback invocation that creates job
  task,                  \* process_download_task execution of job
  can,                   \* cancel_download execution on job
  url,                   \* handle_url invocation of user
  incs,                  \* history: INCRs of concurrent executed on behalf of job
  decs,                  \* history: DECRs of concurrent executed on behalf of job
  counted,               \* history: increment_user_downloads ran for job
  payments,              \* Mongo collection payments: payment -> document
  approve,               \* approve_payment invocation on payment
  activated,             \* handle_successful_payment has run for payment
  subscriptions,         \* SQL table subscriptions: user -> row
  sql_reply,             \* SQL bot: the last answer of a download-limit check
  qjob,                  \* queueing of a download: position in the handler, tier
  celery,                \* Celery queue 'default' in Redis: priority step -> list
  handed,                \* download ids in the order workers received them
  sql_payments,          \* SQL table payments: payment -> row
  sql_confirm,           \* SQL bot: how confirm_payment ended for payment
  sql_notified,          \* SQL bot: chat the activation message of payment went to
  sql_activations,       \* history: times update_subscription_plan ran for payment
  ser,                   \* a User or Payment object, its to_dict() and from_dict() of that
  sweep,                 \* a users collection and the expiry check run on it
  rate,                  \* Redis key rate_limit:<action>:<user_id> and the calls of check_rate_limit
  dm                     \* SQL bot: DownloadManager.active_downloads of a user and that user's downloads

vars == <<now, subscription, subscription_expires, concurrent, downloads_count,
          downloads, download_queue, broker, revoked, cb, task, can, url,
          incs, decs, counted, payments, approve, activated,
          subscriptions, sql_reply, qjob, celery, handed,
          sql_payments, sql_confirm, sql_notified, sql_activations, ser, sweep, rate, dm>>

userVars == <<now, subscription, subscription_expires>>
histVars == <<incs, decs, counted>>
payVars == <<payments, approve, activated>>
sqlVars == <<subscriptions, sql_reply>>
queueVars == <<qjob, celery, handed>>
sqlPayVars == <<sql_payments, sql_confirm, sql_notified, sql_activations>>
jobVars == <<concurrent, downloads_count, downloads, download_queue, broker,
             revoked, cb, task, can, url>>

\* The user whose button press creates job j (one user in this model).
Owner(j) == CHOOSE u \in Users : TRUE

(***************************************************************************)
(* RedisManager                                                            *)
(***************************************************************************)

\* get_user_activity: the hash of today's key; a missing key or field reads 0.
get_user_activity(count, u, date) == count[u][date]

\* check_user_limit without the daily_limit != -1 test of line 93.
check_user_limit_no_unlimited(used, conc, sub) ==
  LET plan == plans[sub]
      daily_limit == plan.daily_limit
      concurrent_limit == plan.concurrent_downloads
  IN  IF used >= daily_limit
        THEN [ok |-> FALSE, reason |-> "daily_limit"]
      ELSE IF conc >= concurrent_limit
        THEN [ok |-> FALSE, reason |-> "concurrent"]
      ELSE [ok |-> TRUE, reason |-> "none"]

\* check_user_limit, on the values its two reads return.
check_user_limit(used, conc, sub) ==
  LET plan == plans[sub]
      daily_limit == plan.daily_limit
      concurrent_limit == plan.concurrent_downloads
  IN  IF daily_limit # -1 /\ used >= daily_limit
        THEN [ok |-> FALSE, reason |-> "daily_limit"]
      ELSE IF conc >= concurrent_limit
        THEN [ok |-> FALSE, reason |-> "concurrent"]
      ELSE [ok |-> TRUE, reason |-> "none"]

\* set_concurrent_download(increment=True): INCR (EXPIRE only sets the TTL).
incr_concurrent(c, u) == [c EXCEPT ![u] = @ + 1]

\* set_concurrent_download(increment=False), first command: DECR.
decr_concurrent(c, u) == [c EXCEPT ![u] = @ - 1]

\* set_concurrent_download(increment=False): DELETE follows when DECR returned <= 0.
needs_delete(c, u) == c[u] <= 0

\* set_concurrent_download(increment=False), second command: DELETE.
delete_concurrent(c, u) == [c EXCEPT ![u] = 0]

\* A variant that adds 2 per download, to compare the counting against.
increment_user_downloads_twice(count, u, date) == [count EXCEPT ![u][date] = @ + 2]

\* increment_user_downloads: HINCRBY downloads_count 1 on today's key.
increment_user_downloads(count, u, date) == [count EXCEPT ![u][date] = @ + 1]

\* add_to_download_queue: the lane of a subscription value.
queue_priority(sub) ==
  IF sub = "gold" THEN 1 ELSE IF sub = "silver" THEN 2
  ELSE IF sub = "bronze" THEN 3 ELSE 4

\* add_to_download_queue: ZADD with score now() appends to the lane.
add_to_download_queue(q, j, sub) ==
  [q EXCEPT ![queue_priority(sub)] = Append(@, j)]

\* get_queue_position: the lanes are searched from priority 1 to 4 and the
\* answer is the 1-based index inside the lane that holds the download;
\* None (0 here) when no lane holds it.
IndexIn(lane, j) ==
  IF \E i \in 1..Len(lane) : lane[i] = j
  THEN CHOOSE i \in 1..Len(lane) : lane[i] = j
  ELSE 0

get_queue_position(q, j) ==
  IF \E p \in 1..4 : IndexIn(q[p], j) # 0
  THEN IndexIn(q[CHOOSE p \in 1..4 : IndexIn(q[p], j) # 0], j)
  ELSE 0

\* get_priority_by_subscription: the priority of the Celery message.
get_priority_by_subscription(sub) ==
  IF sub = "gold" THEN 1 ELSE IF sub = "silver" THEN 2
  ELSE IF sub = "bronze" THEN 3 ELSE 4

\* The broker is Redis (broker_url) and no broker_transport_options are set:
\* the transport keeps one list per priority step, a message of priority n
\* goes to the list of the largest step not above n, and a worker is given
\* the oldest message of the first non-empty list, lowest step first.
priority_steps == {0, 3, 6, 9}

priority_step(n) ==
  CHOOSE s \in priority_steps :
    s <= n /\ \A t \in priority_steps : t <= n => t <= s

\* apply_async(priority=n): the message is pushed to the 'default' queue
\* (task_routes), on the list of its priority step.
apply_async(c, j, n) == [c EXCEPT ![priority_step(n)] = Append(@, j)]

\* The list a worker's next message comes from.
first_step(c) ==
  CHOOSE s \in priority_steps :
    c[s] # <<>> /\ \A t \in priority_steps : c[t] # <<>> => s <= t

(***************************************************************************)
(* Initial state                                                           *)
(***************************************************************************)

\* Usage the day starts the trace with: one below the plan's limit for a
\* finite plan (the limit itself is then reached inside the trace).
UsedAtStart(sub) ==
  IF plans[sub].daily_limit = -1 THEN 0 ELSE plans[sub].daily_limit - 1

\* Stored subscriptions at the start: a free user, or a bronze user whose
\* subscription runs out on day MaxNow.
InitSubscriptions == {<<"free", NoExpiry>>, <<"bronze", MaxNow>>}

\* The Redis keys, the downloads collection, the broker and the handler and
\* task instances before the first request.
InitJobsHolding(held) ==
  /\ concurrent = [u \in Users |-> held]
  /\ downloads = [j \in Jobs |-> NoDoc]
  /\ download_queue = [p \in 1..4 |-> <<>>]
  /\ broker = [j \in Jobs |-> FALSE]
  /\ revoked = [j \in Jobs |-> FALSE]
  /\ cb = [j \in Jobs |-> [pc |-> "idle", sub |-> "free", denied |-> "none"]]
  /\ task = [j \in Jobs |-> [pc |-> "none", retries |-> 0, task_id |-> FALSE,
                             exc |-> "none", size |-> 0, del |-> FALSE]]
  /\ can = [j \in Jobs |-> [pc |-> "idle", by |-> NoUser, task_id |-> FALSE,
                            res |-> "none", del |-> FALSE]]
  /\ url = [u \in Users |-> [pc |-> "idle", sub |-> "free", res |-> "none",
                             del |-> FALSE]]
  /\ incs = [j \in Jobs |-> 0]
  /\ decs = [j \in Jobs |-> 0]
  /\ counted = [j \in Jobs |-> FALSE]

InitJobs == InitJobsHolding(0)

\* Payment(...) as create_payment stores it: PaymentStatus.PENDING ("pending"),
\* for a paid plan.
NewPayment(t) == [status |-> PENDING, subscription_type |-> t]

\* create_user (crud.py:18-27): a FREE row, active, no end date, reset today.
NewSubscription(plan, used) ==
  [plan |-> plan, end_date |-> NoExpiry, is_active |-> TRUE,
   daily_downloads_used |-> used, last_download_reset |-> 0]

NoReply == [by |-> "none", answer |-> "none"]

\* create_payment (crud.py:120-132): a PENDING row for the user's row id
\* and the chosen plan.
NewSqlPayment(plan) == [status |-> PENDING, plan |-> plan]

\* No payment of the SQL bot has been confirmed.
InitSqlPayments(plan) ==
  /\ sql_payments = [p \in Payments |-> NewSqlPayment(plan)]
  /\ sql_confirm = [p \in Payments |-> "none"]
  /\ sql_notified = [p \in Payments |-> NoUser]
  /\ sql_activations = [p \in Payments |-> 0]

\* The downloads one user starts in the SQL bot; NoDl: no entry of the user
\* in active_downloads.
Dls == 1..MaxStarted
NoDl == 0

\* The calls of check_rate_limit.
RateCalls == 1..MaxCalls

\* TTL of a key that has no expiry.
NoTtl == -1

\* TTL of a key in its window (the seconds left are not modelled).
InWindow == 1

\* No object is being serialized.
Unset == [unset |-> TRUE]

\* The users of the collection the expiry check is run on.
SweepUsers == {101, 303}

\* User(...) defaults (models.py): subscription FREE, subscription_expires None.
NewUser == [subscription |-> "free", subscription_expires |-> NoExpiry]
InitSerIdle == ser = [pc |-> "idle", cls |-> "none", x |-> Unset, data |-> Unset, out |-> Unset]

\* DownloadManager.__init__ (download.py:29-32): active_downloads = {}, and
\* no download of the user has been started.
InitDmIdle ==
  dm = [active_downloads |-> NoDl, cancelled |-> NoDl,
        dl |-> [d \in Dls |-> "idle"]]

\* A call of check_rate_limit that has not started.
NewCall == [pc |-> "idle", current |-> 0, window |-> 0, allowed |-> FALSE, ttl |-> 0]

\* No rate_limit key and no call of check_rate_limit.
InitRateIdle ==
  rate = [value |-> 0, expire |-> FALSE, window |-> 0, limit |-> 0,
          call |-> [c \in RateCalls |-> NewCall]]

\* The users collection of the expiry check where the behaviour does not run it.
InitSweepIdle ==
  sweep = [pc |-> "idle", t |-> 0, expired_count |-> 0,
           input |-> [u \in SweepUsers |-> NewUser],
           before |-> [u \in SweepUsers |-> NewUser],
           users |-> [u \in SweepUsers |-> NewUser]]

\* The SQL tables where the behaviour does not use them.
InitSqlIdle ==
  /\ subscriptions = [u \in Users |-> NewSubscription("free", 0)]
  /\ sql_reply = [u \in Users |-> NoReply]
  /\ InitSqlPayments("bronze")
  /\ InitSerIdle
  /\ InitSweepIdle
  /\ InitRateIdle
  /\ InitDmIdle

\* The queue of the other behaviours' downloads is modelled by broker.
InitQueueIdle ==
  /\ qjob = [j \in QJobs |-> [pc |-> "new", sub |-> "free", position |-> 0]]
  /\ celery = [s \in priority_steps |-> <<>>]
  /\ handed = <<>>

Init ==
  /\ now = 0
  /\ \E s \in InitSubscriptions :
       /\ subscription = [u \in Users |-> s[1]]
       /\ subscription_expires = [u \in Users |-> s[2]]
       /\ downloads_count = [u \in Users |-> [d \in 0..MaxNow |->
                               IF d = 0 THEN UsedAtStart(s[1]) ELSE 0]]
  /\ InitJobs
  /\ payments = [p \in Payments |-> NewPayment("bronze")]
  /\ approve = [p \in Payments |-> "idle"]
  /\ activated = [p \in Payments |-> FALSE]
  /\ InitSqlIdle
  /\ InitQueueIdle

(***************************************************************************)
(* handle_download_callback (download_handler.py:222-317): the button      *)
(* press that admits and queues job j.                                     *)
(***************************************************************************)

\* Invocations take job numbers in starting order (ids are given on insert).
CbMayStart(j) == \A k \in Jobs : k < j => cb[k].pc # "idle"

\* The verdict of check_user_limit for user u with subscription sub now.
Verdict(u, sub) ==
  check_user_limit(get_user_activity(downloads_count, u, now), concurrent[u], sub)

\* lines 249-256: db_user = get_user(user_id); check_user_limit(user_id,
\* db_user.subscription); a denial answers the query with the reason and
\* returns.
CbCheckUserLimit(j) ==
  /\ cb[j].pc = "idle"
  /\ CbMayStart(j)
  /\ LET sub == subscription[Owner(j)]
         v == Verdict(Owner(j), sub)
     IN  cb' = [cb EXCEPT ![j] = [pc |-> IF v.ok THEN "checked" ELSE "idle",
                                  sub |-> sub, denied |-> v.reason]]
  /\ UNCHANGED <<dm, rate, sweep, ser, sqlPayVars, queueVars, sqlVars, payVars, userVars, concurrent, downloads_count, downloads, download_queue,
                 broker, revoked, task, can, url, histVars>>

\* line 259: set_concurrent_download(user_id, increment=True)
CbIncr(j) ==
  /\ cb[j].pc = "checked"
  /\ concurrent' = incr_concurrent(concurrent, Owner(j))
  /\ incs' = [incs EXCEPT ![j] = @ + 1]
  /\ cb' = [cb EXCEPT ![j].pc = "incr"]
  /\ UNCHANGED <<dm, rate, sweep, ser, sqlPayVars, queueVars, sqlVars, payVars, userVars, downloads_count, downloads, download_queue,
                 broker, revoked, task, can, url, decs, counted>>

\* lines 262-288: Download(...) with status PENDING, create_download, the
\* progress message with the cancel button.
CbCreate(j) ==
  /\ cb[j].pc = "incr"
  /\ downloads' = [downloads EXCEPT ![j] = [status |-> PENDING, task_id |-> FALSE]]
  /\ cb' = [cb EXCEPT ![j].pc = "created"]
  /\ UNCHANGED <<dm, rate, sweep, ser, sqlPayVars, queueVars, sqlVars, payVars, userVars, concurrent, downloads_count, download_queue,
                 broker, revoked, task, can, url, histVars>>

\* lines 291-301: add_to_download_queue with db_user.subscription.value, then
\* process_download_task.apply_async(...).
CbEnqueue(j) ==
  /\ cb[j].pc = "created"
  /\ download_queue' = add_to_download_queue(download_queue, j, cb[j].sub)
  /\ broker' = [broker EXCEPT ![j] = TRUE]
  /\ cb' = [cb EXCEPT ![j].pc = "applied"]
  /\ UNCHANGED <<dm, rate, sweep, ser, sqlPayVars, queueVars, sqlVars, payVars, userVars, concurrent, downloads_count, downloads,
                 revoked, task, can, url, histVars>>

\* lines 304-305: download.task_id = task.id; update_download(download) writes
\* the handler's whole document ($set of to_dict()), status PENDING included.
CbSaveTask(j) ==
  /\ cb[j].pc = "applied"
  /\ downloads' = [downloads EXCEPT ![j] = [status |-> PENDING, task_id |-> TRUE]]
  /\ cb' = [cb EXCEPT ![j].pc = "done"]
  /\ UNCHANGED <<dm, rate, sweep, ser, sqlPayVars, queueVars, sqlVars, payVars, userVars, concurrent, downloads_count, download_queue,
                 broker, revoked, task, can, url, histVars>>

handle_download_callback(j) ==
  \/ CbCheckUserLimit(j) \/ CbIncr(j) \/ CbCreate(j) \/ CbEnqueue(j)
  \/ CbSaveTask(j)

\* A storage call of the handler raises after the INCR of line 259:
\* create_download (line 273), or add_to_download_queue / apply_async
\* (lines 291-301).  The handler has no try block; the exception ends it and
\* handle_callback (callback_handler.py:102-104) answers with an error.
CbRaise(j) ==
  /\ cb[j].pc \in {"incr", "created"}
  /\ cb' = [cb EXCEPT ![j].pc = "raised"]
  /\ UNCHANGED <<dm, rate, sweep, ser, sqlPayVars, queueVars, sqlVars, payVars, userVars, concurrent, downloads_count, downloads, download_queue,
                 broker, revoked, task, can, url, histVars>>

\* The admission check of job j's callback has granted it.
Admitted(j) == cb[j].pc # "idle"

(***************************************************************************)
(* process_download_task (download_tasks.py:49-257) with the handlers it   *)
(* calls, handle_download_complete and handle_download_error               *)
(* (download_handler.py:360-463).  task[j].pc is the next statement.       *)
(***************************************************************************)

\* The counter after a DECR for job j's owner, and whether that DECR
\* returned <= 0, so that the DELETE is still owed.
DecrBy(j) == decr_concurrent(concurrent, Owner(j))
OwesDelete(j) == needs_delete(DecrBy(j), Owner(j))

\* An update_download by a process that holds a copy of the document: the
\* whole copy is written ($set of to_dict()), so the stored task_id becomes
\* the copy's.
update_download(docs, j, status, task_id) ==
  [docs EXCEPT ![j] = [status |-> status, task_id |-> task_id]]

\* get_download immediately followed by update_download with a new status:
\* the other fields are written back as just read.
set_status(docs, j, status) == [docs EXCEPT ![j].status = status]

TaskRunning(j) ==
  task[j].pc \notin {"none", "end_ok", "end_fail", "revoked", "killed"}

RECURSIVE RetriesOf(_)
RetriesOf(js) ==
  IF js = {} THEN 0
  ELSE LET j == CHOOSE k \in js : TRUE IN task[j].retries + RetriesOf(js \ {j})

\* self.request.retries, summed over the tasks of the behaviour.
RetriesUsed == RetriesOf(Jobs)

\* The worker receives the message.  A revoked task id is discarded;
\* otherwise line 118: download = await mongo_manager.get_download(id).
TaskStart(j) ==
  /\ broker[j]
  /\ task[j].pc = "none"
  /\ ~task[j].del
  /\ broker' = [broker EXCEPT ![j] = FALSE]
  /\ task' = [task EXCEPT ![j].pc = IF revoked[j] THEN "revoked" ELSE "read",
                          ![j].task_id = downloads[j].task_id,
                          ![j].exc = "none"]
  /\ UNCHANGED <<dm, rate, sweep, ser, sqlPayVars, queueVars, sqlVars, payVars, userVars, concurrent, downloads_count, downloads, download_queue,
                 revoked, cb, can, url, histVars>>

\* lines 130-132: download.status = PROCESSING; update_download(download)
TaskProcessing(j) ==
  /\ task[j].pc = "read"
  /\ downloads' = update_download(downloads, j, PROCESSING, task[j].task_id)
  /\ task' = [task EXCEPT ![j].pc = "proc"]
  /\ UNCHANGED <<dm, rate, sweep, ser, sqlPayVars, queueVars, sqlVars, payVars, userVars, concurrent, downloads_count, download_queue,
                 broker, revoked, cb, can, url, histVars>>

\* Sizes of the fetched file (result['filesize']), in units of 1024 * 1024
\* bytes: within the free plan's limit, between the free and the bronze
\* limit, and above every plan's limit.
FileSizes == {40, 150, 3000}

\* lines 165-169: user = get_user(download.user_id); the limit is
\* plans[user.subscription.value]['max_file_size'], read through
\* bot_config.subscription_config (config.py:175 holds the table as
\* subscription_config); file_size > max_file_size raises.
file_too_large(sub, file_size) == file_size > plans[sub].max_file_size

\* line 135: set_concurrent_download(download.user_id, increment=True), then
\* lines 137-179, the download itself: it returns a file that passes the size
\* check, raises (no file, file too large, any error of the fetcher), or the
\* soft time limit interrupts it.  size is the file's size when the size
\* check raised, 0 otherwise.
TaskDownload(j) ==
  /\ task[j].pc = "proc"
  /\ concurrent' = incr_concurrent(concurrent, Owner(j))
  /\ incs' = [incs EXCEPT ![j] = @ + 1]
  /\ \/ \E outcome \in {"error", "timeout"} :
          task' = [task EXCEPT ![j].pc = "f1", ![j].exc = outcome, ![j].size = 0]
     \/ \E file_size \in FileSizes :
          IF file_too_large(subscription[Owner(j)], file_size)
          THEN task' = [task EXCEPT ![j].pc = "f1", ![j].exc = "error",
                                    ![j].size = file_size]
          ELSE task' = [task EXCEPT ![j].pc = "dl_ok", ![j].exc = "none",
                                    ![j].size = 0]
  /\ UNCHANGED <<dm, rate, sweep, ser, sqlPayVars, queueVars, sqlVars, payVars, userVars, downloads_count, downloads, download_queue,
                 broker, revoked, cb, can, url, decs, counted>>

\* lines 182-192: download.status = COMPLETED; update_download(download), the
\* copy read at line 118; then handle_download_complete lines 370-375:
\* get_download, status = COMPLETED, update_download.
TaskCompleted(j) ==
  /\ task[j].pc = "dl_ok"
  /\ downloads' = update_download(downloads, j, COMPLETED, task[j].task_id)
  /\ task' = [task EXCEPT ![j].pc = "hc1"]
  /\ UNCHANGED <<dm, rate, sweep, ser, sqlPayVars, queueVars, sqlVars, payVars, userVars, concurrent, downloads_count, download_queue,
                 broker, revoked, cb, can, url, histVars>>

\* handle_download_complete line 378: set_concurrent_download(increment=False)
CompleteDecr(j) ==
  /\ task[j].pc = "hc1"
  /\ concurrent' = DecrBy(j)
  /\ decs' = [decs EXCEPT ![j] = @ + 1]
  /\ task' = [task EXCEPT ![j].pc = "hc2", ![j].del = OwesDelete(j)]
  /\ UNCHANGED <<dm, rate, sweep, ser, sqlPayVars, queueVars, sqlVars, payVars, userVars, downloads_count, downloads, download_queue,
                 broker, revoked, cb, can, url, incs, counted>>

\* handle_download_complete line 381: increment_user_downloads(user_id, size);
\* lines 384-428: the file is sent, and when sending raises, the except
\* clause calls handle_download_error.
CompleteCount(j) ==
  /\ task[j].pc = "hc2"
  /\ ~task[j].del
  /\ downloads_count' = increment_user_downloads(downloads_count, Owner(j), now)
  /\ counted' = [counted EXCEPT ![j] = TRUE]
  /\ \E sent \in BOOLEAN :
       task' = [task EXCEPT ![j].pc = IF sent THEN "fin" ELSE "he0"]
  /\ UNCHANGED <<dm, rate, sweep, ser, sqlPayVars, queueVars, sqlVars, payVars, userVars, concurrent, downloads, download_queue,
                 broker, revoked, cb, can, url, incs, decs>>

\* Where handle_download_error was entered from, by the statement label:
\* he = the except clause of handle_download_complete, f = the except clause
\* of _process_download_async, o = the except clauses of process_download_task.
ErrorWriteNext(pc) == IF pc = "he0" THEN "he1" ELSE IF pc = "f1" THEN "f2" ELSE "o2"

\* handle_download_error lines 439-443 (get_download, status = FAILED,
\* update_download); entered through _handle_download_failure (lines 242-247,
\* the same read and write of FAILED just before) at labels f1 and o1.
ErrorWrite(j) ==
  /\ task[j].pc \in {"he0", "f1", "o1"}
  /\ ~task[j].del
  /\ downloads' = set_status(downloads, j, FAILED)
  /\ task' = [task EXCEPT ![j].pc = ErrorWriteNext(task[j].pc), ![j].size = 0]
  /\ UNCHANGED <<dm, rate, sweep, ser, sqlPayVars, queueVars, sqlVars, payVars, userVars, concurrent, downloads_count, download_queue,
                 broker, revoked, cb, can, url, histVars>>

\* process_download_task lines 92 and 102: SoftTimeLimitExceeded is raised
\* again; any other exception goes to self.retry, which queues the task
\* again under the same task id until max_retries is used up.
Retries(j) ==
  task[j].exc = "error" /\ task[j].retries < max_retries /\ RetriesUsed < MaxRetry

\* handle_download_error line 446: set_concurrent_download(increment=False).
\* After the call from process_download_task (label o2) the task retries or
\* ends.
ErrorDecr(j) ==
  /\ task[j].pc \in {"he1", "f2", "o2"}
  /\ concurrent' = DecrBy(j)
  /\ decs' = [decs EXCEPT ![j] = @ + 1]
  /\ IF task[j].pc = "o2"
       THEN /\ task' = [task EXCEPT
                 ![j].pc = IF Retries(j) THEN "none" ELSE "end_fail",
                 ![j].retries = IF Retries(j) THEN @ + 1 ELSE @,
                 ![j].del = OwesDelete(j)]
            /\ broker' = [broker EXCEPT ![j] = Retries(j)]
       ELSE /\ task' = [task EXCEPT ![j].pc = "fin", ![j].del = OwesDelete(j)]
            /\ UNCHANGED broker
  /\ UNCHANGED <<dm, rate, sweep, ser, sqlPayVars, queueVars, sqlVars, payVars, userVars, downloads_count, downloads, download_queue,
                 revoked, cb, can, url, incs, counted>>

\* _process_download_async line 232, the finally clause:
\* set_concurrent_download(increment=False); then the task returns its
\* result, or the exception reaches process_download_task (lines 86-99).
TaskFinally(j) ==
  /\ task[j].pc = "fin"
  /\ ~task[j].del
  /\ concurrent' = DecrBy(j)
  /\ decs' = [decs EXCEPT ![j] = @ + 1]
  /\ task' = [task EXCEPT ![j].pc = IF task[j].exc = "none" THEN "end_ok" ELSE "o1",
                          ![j].del = OwesDelete(j)]
  /\ UNCHANGED <<dm, rate, sweep, ser, sqlPayVars, queueVars, sqlVars, payVars, userVars, downloads_count, downloads, download_queue,
                 broker, revoked, cb, can, url, incs, counted>>

\* set_concurrent_download lines 129-130: DELETE after a DECR that returned <= 0.
TaskDelete(j) ==
  /\ task[j].del
  /\ concurrent' = delete_concurrent(concurrent, Owner(j))
  /\ task' = [task EXCEPT ![j].del = FALSE]
  /\ UNCHANGED <<dm, rate, sweep, ser, sqlPayVars, queueVars, sqlVars, payVars, userVars, downloads_count, downloads, download_queue,
                 broker, revoked, cb, can, url, histVars>>

process_download_task(j) ==
  \/ TaskStart(j) \/ TaskProcessing(j) \/ TaskDownload(j) \/ TaskCompleted(j)
  \/ CompleteDecr(j) \/ CompleteCount(j) \/ ErrorWrite(j) \/ ErrorDecr(j)
  \/ TaskFinally(j) \/ TaskDelete(j)

(***************************************************************************)
(* cancel_download (download_tasks.py:307-358), sent by the owner's cancel *)
(* button (callback_handler.py:195-199).                                   *)
(***************************************************************************)

\* line 335: only a PENDING or PROCESSING download can be cancelled.
Cancellable(status) == status \in {PENDING, PROCESSING}

\* A variant of the read that leaves out the comparison with the owner.
CancelReadAnyone(j) ==
  /\ can[j].pc = "idle"
  /\ downloads[j] # NoDoc
  /\ \E requester \in Requesters :
       can' = [can EXCEPT
                 ![j].by = requester,
                 ![j].pc = IF Cancellable(downloads[j].status) THEN "checked" ELSE "done",
                 ![j].task_id = downloads[j].task_id,
                 ![j].res = IF Cancellable(downloads[j].status) THEN "none" ELSE "error"]
  /\ UNCHANGED <<dm, rate, sweep, ser, sqlPayVars, queueVars, sqlVars, payVars, userVars, concurrent, downloads_count, downloads, download_queue,
                 broker, revoked, cb, task, url, histVars>>

\* lines 330-336: get_download and the two checks, for the requester that
\* handle_download_action passes (query.from_user.id); a requester that is
\* not download.user_id is answered 'Download not found'.
\* The press deletes the progress message that carries the button
\* (callback_handler.py:199), so a job's cancel is requested at most once.
CancelRead(j) ==
  /\ can[j].pc = "idle"
  /\ downloads[j] # NoDoc
  /\ \E requester \in Requesters :
       can' = [can EXCEPT
                 ![j].by = requester,
                 ![j].pc = IF requester = Owner(j) /\ Cancellable(downloads[j].status)
                           THEN "checked" ELSE "done",
                 ![j].task_id = downloads[j].task_id,
                 ![j].res = IF requester # Owner(j) THEN "not_found"
                            ELSE IF Cancellable(downloads[j].status) THEN "none"
                            ELSE "error"]
  /\ UNCHANGED <<dm, rate, sweep, ser, sqlPayVars, queueVars, sqlVars, payVars, userVars, concurrent, downloads_count, downloads, download_queue,
                 broker, revoked, cb, task, url, histVars>>

\* lines 339-341: download.status = CANCELLED; update_download(download)
CancelWrite(j) ==
  /\ can[j].pc = "checked"
  /\ downloads' = update_download(downloads, j, CANCELLED, can[j].task_id)
  /\ can' = [can EXCEPT ![j].pc = "written"]
  /\ UNCHANGED <<dm, rate, sweep, ser, sqlPayVars, queueVars, sqlVars, payVars, userVars, concurrent, downloads_count, download_queue,
                 broker, revoked, cb, task, url, histVars>>

\* lines 345-346: if download.task_id: revoke(download.task_id, terminate=True)
CancelRevoke(j) ==
  /\ can[j].pc = "written"
  /\ revoked' = [revoked EXCEPT ![j] = @ \/ can[j].task_id]
  /\ can' = [can EXCEPT ![j].pc = "revoke_sent"]
  /\ UNCHANGED <<dm, rate, sweep, ser, sqlPayVars, queueVars, sqlVars, payVars, userVars, concurrent, downloads_count, downloads, download_queue,
                 broker, cb, task, url, histVars>>

\* line 349: set_concurrent_download(user_id, increment=False); line 358.
CancelDecr(j) ==
  /\ can[j].pc = "revoke_sent"
  /\ concurrent' = DecrBy(j)
  /\ decs' = [decs EXCEPT ![j] = @ + 1]
  /\ can' = [can EXCEPT ![j].pc = "done", ![j].res = "success",
                        ![j].del = OwesDelete(j)]
  /\ UNCHANGED <<dm, rate, sweep, ser, sqlPayVars, queueVars, sqlVars, payVars, userVars, downloads_count, downloads, download_queue,
                 broker, revoked, cb, task, url, incs, counted>>

\* set_concurrent_download lines 129-130: DELETE after a DECR that returned <= 0.
CancelDelete(j) ==
  /\ can[j].del
  /\ concurrent' = delete_concurrent(concurrent, Owner(j))
  /\ can' = [can EXCEPT ![j].del = FALSE]
  /\ UNCHANGED <<dm, rate, sweep, ser, sqlPayVars, queueVars, sqlVars, payVars, userVars, downloads_count, downloads, download_queue,
                 broker, revoked, cb, task, url, histVars>>

cancel_download(j) ==
  \/ CancelRead(j) \/ CancelWrite(j) \/ CancelRevoke(j) \/ CancelDecr(j)
  \/ CancelDelete(j)

\* revoke(task_id, terminate=True) reaches the worker that runs the task:
\* the child process is killed where it stands.
TaskTerminate(j) ==
  /\ revoked[j]
  /\ TaskRunning(j)
  /\ task' = [task EXCEPT ![j].pc = "killed", ![j].del = FALSE]
  /\ UNCHANGED <<dm, rate, sweep, ser, sqlPayVars, queueVars, sqlVars, payVars, userVars, concurrent, downloads_count, downloads, download_queue,
                 broker, revoked, cb, can, url, histVars>>

(***************************************************************************)
(* handle_url (download_handler.py:31-134) with show_download_options      *)
(* (136-220): the slot it holds while it fetches the video info.           *)
(***************************************************************************)

\* Video durations in seconds that the info extraction may report: one
\* within every plan's max_duration and one between each two limits.
Durations == {300, 900, 2400, 7200}

\* show_download_options lines 157-160: max_duration != -1 and
\* duration > max_duration, for the plan of db_user.subscription.
duration_exceeded(sub, duration) ==
  plans[sub].max_duration # -1 /\ duration > plans[sub].max_duration

\* lines 61-89: db_user of @track_user, check_user_limit; a denial replies
\* and returns.
UrlCheck(u) ==
  /\ url[u].pc = "idle"
  /\ ~url[u].del
  /\ Verdict(u, subscription[u]).ok
  /\ url' = [url EXCEPT ![u].pc = "checked", ![u].sub = subscription[u],
                        ![u].res = "none"]
  /\ UNCHANGED <<dm, rate, sweep, ser, sqlPayVars, queueVars, sqlVars, payVars, userVars, concurrent, downloads_count, downloads, download_queue,
                 broker, revoked, cb, task, can, histVars>>

\* line 92: set_concurrent_download(user_id, increment=True)
UrlIncr(u) ==
  /\ url[u].pc = "checked"
  /\ concurrent' = incr_concurrent(concurrent, u)
  /\ url' = [url EXCEPT ![u].pc = "held"]
  /\ UNCHANGED <<dm, rate, sweep, ser, sqlPayVars, queueVars, sqlVars, payVars, userVars, downloads_count, downloads, download_queue,
                 broker, revoked, cb, task, can, histVars>>

\* How the part of handle_url that holds the slot ends: the info extraction
\* returns nothing (line 116), an exception is raised (line 134), or
\* show_download_options runs and denies for the duration (line 169) or
\* shows the options (line 220).
UrlOutcome(sub, path, duration) ==
  IF path # "options" THEN path
  ELSE IF duration_exceeded(sub, duration) THEN "duration" ELSE "shown"

\* A variant of the release that charges a daily download for the request.
UrlReleaseCounting(u) ==
  /\ url[u].pc = "held"
  /\ concurrent' = decr_concurrent(concurrent, u)
  /\ downloads_count' = increment_user_downloads(downloads_count, u, now)
  /\ \E path \in {"info_failed", "error", "options"}, duration \in Durations :
       url' = [url EXCEPT ![u].pc = "idle", ![u].sub = "free",
                          ![u].res = UrlOutcome(url[u].sub, path, duration),
                          ![u].del = needs_delete(decr_concurrent(concurrent, u), u)]
  /\ UNCHANGED <<dm, rate, sweep, ser, sqlPayVars, queueVars, sqlVars, payVars, userVars, downloads, download_queue,
                 broker, revoked, cb, task, can, histVars>>

\* lines 116, 134, 169, 220: set_concurrent_download(user_id, increment=False)
\* on each of the exit paths; nothing else is written.
UrlRelease(u) ==
  /\ url[u].pc = "held"
  /\ concurrent' = decr_concurrent(concurrent, u)
  /\ \E path \in {"info_failed", "error", "options"}, duration \in Durations :
       url' = [url EXCEPT ![u].pc = "idle", ![u].sub = "free",
                          ![u].res = UrlOutcome(url[u].sub, path, duration),
                          ![u].del = needs_delete(decr_concurrent(concurrent, u), u)]
  /\ UNCHANGED <<dm, rate, sweep, ser, sqlPayVars, queueVars, sqlVars, payVars, userVars, downloads_count, downloads, download_queue,
                 broker, revoked, cb, task, can, histVars>>

\* set_concurrent_download lines 129-130: DELETE after a DECR that returned <= 0.
UrlDelete(u) ==
  /\ url[u].del
  /\ concurrent' = delete_concurrent(concurrent, u)
  /\ url' = [url EXCEPT ![u].del = FALSE]
  /\ UNCHANGED <<dm, rate, sweep, ser, sqlPayVars, queueVars, sqlVars, payVars, userVars, downloads_count, downloads, download_queue,
                 broker, revoked, cb, task, can, histVars>>

handle_url(u) == UrlCheck(u) \/ UrlIncr(u) \/ UrlRelease(u) \/ UrlDelete(u)

\* lines 128-134: an exception inside the try block is answered with
\* message.reply_text (lines 130-133) before the release of line 134.  When
\* that reply raises as well (the chat cannot be written to), the handler
\* ends in the except clause and line 134 is not executed.
UrlRaise(u) ==
  /\ url[u].pc = "held"
  /\ url' = [url EXCEPT ![u].pc = "idle", ![u].sub = "free", ![u].res = "raised"]
  /\ UNCHANGED <<dm, rate, sweep, ser, sqlPayVars, queueVars, sqlVars, payVars, userVars, concurrent, downloads_count, downloads, download_queue,
                 broker, revoked, cb, task, can, histVars>>

(***************************************************************************)
(* Time and the expiry sweep.                                              *)
(***************************************************************************)

\* A day passes.
Tick ==
  /\ now < MaxNow
  /\ now' = now + 1
  /\ UNCHANGED <<dm, rate, sweep, ser, sqlPayVars, queueVars, sqlVars, payVars, subscription, subscription_expires, concurrent, downloads_count,
                 downloads, download_queue, broker, revoked, cb, task, can, url,
                 histVars>>

\* The find with $lt in place of $lte.
expired_users_lt(subs, exps, t) ==
  {u \in DOMAIN subs : subs[u] # "free" /\ exps[u] # NoExpiry /\ exps[u] < t}

\* _check_expired_subscriptions_async lines 250-253: the users the find selects.
expired_users(subs, exps, t) ==
  {u \in DOMAIN subs : subs[u] # "free" /\ exps[u] # NoExpiry /\ exps[u] <= t}

\* check_expired_subscriptions (maintenance_tasks.py:243-269): every selected
\* user is rewritten to FREE with no expiry.
check_expired_subscriptions ==
  /\ expired_users(subscription, subscription_expires, now) # {}
  /\ subscription' = [u \in Users |->
       IF u \in expired_users(subscription, subscription_expires, now)
         THEN "free" ELSE subscription[u]]
  /\ subscription_expires' = [u \in Users |->
       IF u \in expired_users(subscription, subscription_expires, now)
         THEN NoExpiry ELSE subscription_expires[u]]
  /\ UNCHANGED <<dm, rate, sweep, ser, sqlPayVars, queueVars, sqlVars, payVars, now, concurrent, downloads_count, downloads, download_queue,
                 broker, revoked, cb, task, can, url, histVars>>

\* The same check on a users collection of several users: the documents the
\* find of lines 250-253 returns are each rewritten by the update_one of
\* lines 260-269, and expired_count (line 270) counts them.
users_subscription(users) == [u \in DOMAIN users |-> users[u].subscription]
users_expires(users) == [u \in DOMAIN users |-> users[u].subscription_expires]

check_expired_subscriptions_async(users, t) ==
  [u \in DOMAIN users |->
     IF u \in expired_users(users_subscription(users), users_expires(users), t)
     THEN [subscription |-> "free", subscription_expires |-> NoExpiry]
     ELSE users[u]]

expired_count(users, t) ==
  Cardinality(expired_users(users_subscription(users), users_expires(users), t))

\* One run of check_expired_subscriptions at time sweep.t; the beat schedule
\* may run it again while the clock reads the same.
SweepRun ==
  /\ sweep.pc \in {"ready", "ran"}
  /\ sweep' = [sweep EXCEPT
       !.pc = IF sweep.pc = "ready" THEN "ran" ELSE "again",
       !.before = sweep.users,
       !.users = check_expired_subscriptions_async(sweep.users, sweep.t),
       !.expired_count = expired_count(sweep.users, sweep.t)]
  /\ UNCHANGED <<dm, rate, ser, sqlPayVars, queueVars, sqlVars, payVars, userVars, jobVars, histVars>>

(***************************************************************************)
(* Payments: approve_payment (admin_handler.py:614-663) and                *)
(* handle_successful_payment (payment_handler.py:247-277).                 *)
(***************************************************************************)

\* approve_payment line 618: mongo_manager.get_payment(payment_id).
\* MongoManager defines create_payment, get_payment_by_authority and
\* update_payment (mongo_client.py:282-303) and no get_payment, so the call
\* raises AttributeError and the handler ends there.
approve_payment(p) ==
  /\ approve[p] = "idle"
  /\ approve' = [approve EXCEPT ![p] = "error"]
  /\ UNCHANGED <<dm, rate, sweep, ser, sqlPayVars, queueVars, sqlVars, userVars, jobVars, histVars, payments, activated>>

\* MongoManager.update_subscription: expires_at = datetime.now() + timedelta(days)
update_subscription_expires(t, days) == t + days

\* handle_successful_payment(user_id, payment), lines 251-258:
\* update_subscription(user_id, payment.subscription_type,
\* plan.get('duration_days', 30)) sets the stored subscription and its expiry.
handle_successful_payment(p) ==
  /\ ~activated[p]
  /\ subscription' = [u \in Users |-> payments[p].subscription_type]
  /\ subscription_expires' = [u \in Users |->
       update_subscription_expires(now, plans[payments[p].subscription_type].duration_days)]
  /\ activated' = [activated EXCEPT ![p] = TRUE]
  /\ UNCHANGED <<dm, rate, sweep, ser, sqlPayVars, queueVars, sqlVars, now, jobVars, histVars, payments, approve>>

(***************************************************************************)
(* The SQL bot (src/bot, src/database): the daily download limit kept in   *)
(* the row subscriptions.daily_downloads_used.                             *)
(***************************************************************************)

\* PLAN_LIMITS[plan]["daily_downloads"] (config.py:33-62); -1 stands for
\* float('inf') of GOLD, which the checks exempt by plan as well.
daily_downloads(plan) ==
  IF plan = "free" THEN 5 ELSE IF plan = "bronze" THEN 50
  ELSE IF plan = "silver" THEN 150 ELSE -1

\* get_user_subscription (crud.py:51-60): the row is returned when it is
\* active and has no end date or one in the future.
get_user_subscription(subs, u, t) ==
  subs[u].is_active /\ (subs[u].end_date = NoExpiry \/ subs[u].end_date > t)

\* The comparison all three checks make: the plan is not GOLD and
\* daily_downloads_used >= daily_downloads.
limit_reached(plan, used) == plan # "gold" /\ used >= daily_downloads(plan)

\* Subscription.reset_daily_downloads_if_needed (models.py:66-73), also
\* DownloadLimitMiddleware._can_download lines 115-118.
reset_daily_downloads_if_needed(row, t) ==
  IF t > row.last_download_reset
    THEN [row EXCEPT !.daily_downloads_used = 0, !.last_download_reset = t]
    ELSE row

\* DownloadManager.handle_download (download.py:57-81): the subscription
\* check and the daily limit check on the stored row; nothing is written.
SqlHandleDownload(u) ==
  /\ sql_reply' = [sql_reply EXCEPT ![u] =
       [by |-> "handle_download",
        answer |-> IF ~get_user_subscription(subscriptions, u, now) THEN "inactive"
                   ELSE IF limit_reached(subscriptions[u].plan,
                                         subscriptions[u].daily_downloads_used)
                     THEN "daily_limit" ELSE "ok"]]
  /\ UNCHANGED <<dm, rate, sweep, ser, sqlPayVars, queueVars, subscriptions, payVars, userVars, jobVars, histVars>>

\* Subscription.can_download(file_size) (models.py:75-96): the reset is made
\* on the row object before the limit is compared.
SqlCanDownload(u) ==
  /\ \E fits \in BOOLEAN :
       LET row == reset_daily_downloads_if_needed(subscriptions[u], now)
       IN  /\ subscriptions' = [subscriptions EXCEPT ![u] =
                                  IF subscriptions[u].is_active THEN row ELSE @]
           /\ sql_reply' = [sql_reply EXCEPT ![u] =
                [by |-> "can_download",
                 answer |-> IF ~subscriptions[u].is_active THEN "inactive"
                            ELSE IF limit_reached(row.plan, row.daily_downloads_used)
                              THEN "daily_limit"
                            ELSE IF ~fits THEN "file_size" ELSE "ok"]]
  /\ UNCHANGED <<dm, rate, sweep, ser, sqlPayVars, queueVars, payVars, userVars, jobVars, histVars>>

\* DownloadLimitMiddleware.__call__ (middleware.py:78-108): _can_download
\* resets the loaded row and compares; the session is closed without a
\* commit, so the stored row stays as it was.
SqlMiddleware(u) ==
  /\ LET row == reset_daily_downloads_if_needed(subscriptions[u], now)
     IN  sql_reply' = [sql_reply EXCEPT ![u] =
           [by |-> "middleware",
            answer |-> IF ~get_user_subscription(subscriptions, u, now) THEN "inactive"
                       ELSE IF limit_reached(row.plan, row.daily_downloads_used)
                         THEN "daily_limit" ELSE "ok"]]
  /\ UNCHANGED <<dm, rate, sweep, ser, sqlPayVars, queueVars, subscriptions, payVars, userVars, jobVars, histVars>>

\* Usage an SQL row starts the behaviour with: one below the plan's limit.
SqlUsedAtStart(plan) == IF plan = "gold" THEN 0 ELSE daily_downloads(plan) - 1

\* DownloadManager.start_download (download.py:145-252) when the download
\* succeeds: record_download (crud.py:95-118) adds 1 to daily_downloads_used
\* of the row get_user_subscription returns, and commits.
SqlRecordDownload(u) ==
  /\ get_user_subscription(subscriptions, u, now)
  /\ subscriptions[u].daily_downloads_used
       < SqlUsedAtStart(subscriptions[u].plan) + MaxSqlUsed
  /\ subscriptions' = [subscriptions EXCEPT ![u].daily_downloads_used = @ + 1]
  /\ UNCHANGED <<dm, rate, sweep, ser, sqlPayVars, queueVars, sql_reply, payVars, userVars, jobVars, histVars>>

\* The primary key users.id of the user's row; payments.user_id and
\* subscriptions.user_id refer to it.
users_id(u) == 1

\* get_user (crud.py:9-11): the user whose telegram_id is the argument,
\* None (NoUser) when there is none.
get_user(id) == IF id \in Users THEN id ELSE NoUser

\* update_subscription_plan (crud.py:62-69), duration_days = 30.
duration_days == 30

\* update_subscription_plan (crud.py:80-90) on the row that
\* get_user_subscription returned.
update_subscription_plan(row, plan, t) ==
  [row EXCEPT
     !.plan = plan,
     !.end_date = IF row.end_date # NoExpiry /\ row.end_date > t
                  THEN row.end_date + duration_days ELSE t + duration_days,
     !.is_active = TRUE,
     !.daily_downloads_used = 0,
     !.last_download_reset = t]

\* confirm_payment line 229: get_user(db, payment.user_id), the row id
\* handed to a lookup by telegram_id.
payment_user_id(p, u) == users_id(u)

\* confirm_payment (admin.py:206-261) for the payment id of a button that
\* admin_payments showed while the payment was pending; the button stays in
\* the messages that hold it, and neither the handler nor complete_payment
\* reads the status.
\* complete_payment (crud.py:135-150) sets the status and calls
\* update_subscription_plan; when get_user_subscription returns no row for a
\* user whose row is expired or inactive, the new row breaks the unique
\* constraint on subscriptions.user_id, the commit raises and nothing is
\* stored.  Line 229 then looks the payer up; with None the handler raises at
\* line 233, before the notification at lines 246-252.
confirm_payment(p) ==
  /\ sql_activations[p] < MaxConfirm
  /\ \E u \in Users :
       IF ~get_user_subscription(subscriptions, u, now)
       THEN /\ sql_confirm' = [sql_confirm EXCEPT ![p] = "error"]
            /\ UNCHANGED <<sql_payments, subscriptions, sql_notified, sql_activations>>
       ELSE /\ sql_payments' = [sql_payments EXCEPT ![p].status = COMPLETED]
            /\ subscriptions' = [subscriptions EXCEPT ![u] =
                 update_subscription_plan(@, sql_payments[p].plan, now)]
            /\ sql_activations' = [sql_activations EXCEPT ![p] = @ + 1]
            /\ IF get_user(payment_user_id(p, u)) = NoUser
               THEN /\ sql_confirm' = [sql_confirm EXCEPT ![p] = "error"]
                    /\ UNCHANGED sql_notified
               ELSE /\ sql_confirm' = [sql_confirm EXCEPT ![p] = "ok"]
                    /\ sql_notified' = [sql_notified EXCEPT
                                          ![p] = get_user(payment_user_id(p, u))]
  /\ UNCHANGED <<dm, rate, sweep, ser, queueVars, sql_reply, payVars, userVars, jobVars, histVars>>

(***************************************************************************)
(* The dataclasses of database/models.py and their to_dict / from_dict.    *)
(* An enum member is written "Class.NAME", its value is the string of the  *)
(* class body; None is NoExpiry for a datetime and NoId for an _id.        *)
(***************************************************************************)

\* class SubscriptionType(Enum) and class PaymentStatus(Enum): member -> value.
SubscriptionType ==
  [m \in {"SubscriptionType.FREE", "SubscriptionType.BRONZE",
          "SubscriptionType.SILVER", "SubscriptionType.GOLD"} |->
     IF m = "SubscriptionType.FREE" THEN "free"
     ELSE IF m = "SubscriptionType.BRONZE" THEN "bronze"
     ELSE IF m = "SubscriptionType.SILVER" THEN "silver" ELSE "gold"]

PaymentStatus ==
  [m \in {"PaymentStatus.PENDING", "PaymentStatus.PAID",
          "PaymentStatus.FAILED", "PaymentStatus.REFUNDED"} |->
     IF m = "PaymentStatus.PENDING" THEN "pending"
     ELSE IF m = "PaymentStatus.PAID" THEN "paid"
     ELSE IF m = "PaymentStatus.FAILED" THEN "failed" ELSE "refunded"]

\* Enum(value): the member with that value; ValueError when there is none.
EnumOf(enum, value) ==
  IF \E m \in DOMAIN enum : enum[m] = value
  THEN CHOOSE m \in DOMAIN enum : enum[m] = value
  ELSE "ValueError"

\* _id of an object that was not stored yet (None), and stored ObjectIds.
NoId == 0
ObjectIds == {1}

\* data.get(key, default)
dict_get(data, key, default) == IF key \in DOMAIN data THEN data[key] ELSE default

\* User.to_dict: every field as it is, subscription as its value; '_id'
\* only when self._id is set.
User_to_dict(x) ==
  LET data == [user_id |-> x.user_id,
               subscription |-> SubscriptionType[x.subscription],
               subscription_expires |-> x.subscription_expires,
               total_downloads |-> x.total_downloads,
               is_banned |-> x.is_banned]
  IN  IF x["_id"] # NoId THEN ("_id" :> x["_id"]) @@ data ELSE data

\* A variant of User.from_dict that leaves the stored string in place.
User_from_dict_raw(data) ==
  ("_id" :> dict_get(data, "_id", NoId)) @@ data

\* User.from_dict: data['subscription'] = SubscriptionType(...),
\* data['_id'] = data.get('_id'), cls(**data).
User_from_dict(data) ==
  ("_id" :> dict_get(data, "_id", NoId))
    @@ [data EXCEPT !.subscription =
          EnumOf(SubscriptionType, dict_get(data, "subscription", "free"))]

\* Payment.to_dict
Payment_to_dict(x) ==
  LET data == [user_id |-> x.user_id,
               amount |-> x.amount,
               subscription_type |-> SubscriptionType[x.subscription_type],
               status |-> PaymentStatus[x.status],
               paid_at |-> x.paid_at]
  IN  IF x["_id"] # NoId THEN ("_id" :> x["_id"]) @@ data ELSE data

\* Payment.from_dict
Payment_from_dict(data) ==
  ("_id" :> dict_get(data, "_id", NoId))
    @@ [data EXCEPT
          !.subscription_type =
             EnumOf(SubscriptionType, dict_get(data, "subscription_type", "free")),
          !.status = EnumOf(PaymentStatus, dict_get(data, "status", "pending"))]

\* User(...) and Payment(...) objects over small field values.
UserObjects ==
  {("_id" :> id) @@ [user_id |-> u, subscription |-> sub,
                     subscription_expires |-> exp, total_downloads |-> n,
                     is_banned |-> b] :
     id \in {NoId} \cup ObjectIds, u \in Users, sub \in DOMAIN SubscriptionType,
     exp \in {NoExpiry} \cup (0..MaxNow), n \in 0..MaxJobs, b \in BOOLEAN}

PaymentObjects ==
  {("_id" :> id) @@ [user_id |-> u, amount |-> a, subscription_type |-> sub,
                     status |-> st, paid_at |-> at] :
     id \in {NoId} \cup ObjectIds, u \in Users, a \in 1..MaxPayments,
     sub \in DOMAIN SubscriptionType, st \in DOMAIN PaymentStatus,
     at \in {NoExpiry} \cup (0..MaxNow)}

\* x.to_dict()
SerToDict ==
  /\ ser.pc = "object"
  /\ ser' = [ser EXCEPT !.pc = "dict",
                        !.data = IF ser.cls = "User" THEN User_to_dict(ser.x)
                                 ELSE Payment_to_dict(ser.x)]
  /\ UNCHANGED <<dm, rate, sweep, sqlPayVars, queueVars, sqlVars, payVars, userVars, jobVars, histVars>>

\* cls.from_dict(data)
SerFromDict ==
  /\ ser.pc = "dict"
  /\ ser' = [ser EXCEPT !.pc = "back",
                        !.out = IF ser.cls = "User" THEN User_from_dict(ser.data)
                                ELSE Payment_from_dict(ser.data)]
  /\ UNCHANGED <<dm, rate, sweep, sqlPayVars, queueVars, sqlVars, payVars, userVars, jobVars, histVars>>

(***************************************************************************)
(* Spec: MaxFull download requests of the user, with every operation.      *)
(***************************************************************************)
Next ==
  \/ \E j \in 1..MaxFull : handle_download_callback(j)
  \/ \E j \in 1..MaxFull : process_download_task(j)
  \/ \E j \in 1..MaxFull : cancel_download(j)
  \/ \E j \in 1..MaxFull : TaskTerminate(j)
  \/ \E j \in 1..MaxFull : CbRaise(j)
  \/ \E u \in Users : handle_url(u)
  \/ Tick
  \/ check_expired_subscriptions

Spec == Init /\ [][Next]_vars

(***************************************************************************)
(* SpecTwo: MaxJobs download requests of the user within one day, nobody   *)
(* presses cancel and no other link is sent meanwhile.                     *)
(***************************************************************************)
NextTwo ==
  \/ \E j \in Jobs : handle_download_callback(j)
  \/ \E j \in Jobs : process_download_task(j)

SpecTwo == Init /\ [][NextTwo]_vars

(***************************************************************************)
(* SpecSub: the user sends links and the user's payments are approved and  *)
(* activated while days pass and the expiry sweep runs.                    *)
(***************************************************************************)

\* Stored subscriptions at the start: free, a silver subscription with
\* DaysLeft days to go, a bronze subscription that ran out today and is not
\* swept yet.
SubAtStart == {<<"free", NoExpiry>>, <<"silver", DaysLeft>>, <<"bronze", 0>>}

InitSub ==
  /\ now = 0
  /\ \E s \in SubAtStart :
       /\ subscription = [u \in Users |-> s[1]]
       /\ subscription_expires = [u \in Users |-> s[2]]
  /\ downloads_count = [u \in Users |-> [d \in 0..MaxNow |-> 0]]
  /\ InitJobs
  /\ \E f \in [Payments -> Tiers \ {"free"}] :
       payments = [p \in Payments |-> NewPayment(f[p])]
  /\ approve = [p \in Payments |-> "idle"]
  /\ activated = [p \in Payments |-> FALSE]
  /\ InitSqlIdle
  /\ InitQueueIdle

NextSub ==
  \/ \E u \in Users : handle_url(u)
  \/ \E u \in Users : UrlRaise(u)
  \/ \E p \in Payments : approve_payment(p)
  \/ \E p \in Payments : handle_successful_payment(p)
  \/ Tick
  \/ check_expired_subscriptions

SpecSub == InitSub /\ [][NextSub]_vars

(***************************************************************************)
(* Queueing of a download (download_handler.py:290-301) and the hand-out   *)
(* of its message to a worker.  The handler suspends at the awaits inside  *)
(* add_to_download_queue, and updates are handled concurrently             *)
(* (bot.py:74); apply_async follows without a further await.               *)
(***************************************************************************)

\* Downloads are created, and so queued, in the order of their ids.
QueueMayStart(j) == \A k \in QJobs : k < j => qjob[k].pc # "new"

\* lines 291-295: add_to_download_queue; its return value is ZRANK + 1.
QueueAdd(j) ==
  /\ qjob[j].pc = "new"
  /\ QueueMayStart(j)
  /\ download_queue' = add_to_download_queue(download_queue, j, qjob[j].sub)
  /\ qjob' = [qjob EXCEPT
       ![j].pc = "laned",
       ![j].position =
         IndexIn(add_to_download_queue(download_queue, j, qjob[j].sub)
                   [queue_priority(qjob[j].sub)], j)]
  /\ UNCHANGED <<dm, rate, sweep, ser, sqlPayVars, celery, handed, sqlVars, payVars, userVars, histVars,
                 concurrent, downloads_count, downloads, broker, revoked,
                 cb, task, can, url>>

\* lines 298-301: process_download_task.apply_async(args, priority).
QueueApply(j) ==
  /\ qjob[j].pc = "laned"
  /\ celery' = apply_async(celery, j, get_priority_by_subscription(qjob[j].sub))
  /\ qjob' = [qjob EXCEPT ![j].pc = "queued"]
  /\ UNCHANGED <<dm, rate, sweep, ser, sqlPayVars, handed, sqlVars, payVars, userVars, jobVars, histVars>>

\* A hand-out that serves the first non-empty list newest message first.
WorkerTakeNewest ==
  /\ \E s \in priority_steps : celery[s] # <<>>
  /\ LET l == celery[first_step(celery)]
         j == l[Len(l)] IN
       /\ celery' = [celery EXCEPT ![first_step(celery)] = SubSeq(l, 1, Len(l) - 1)]
       /\ handed' = Append(handed, j)
       /\ qjob' = [qjob EXCEPT ![j].pc = "taken"]
  /\ UNCHANGED <<dm, rate, sweep, ser, sqlPayVars, sqlVars, payVars, userVars, jobVars, histVars>>

\* A worker receives the next message of the queue.  No code takes the
\* download out of download_queue:<priority>.
WorkerTake ==
  /\ \E s \in priority_steps : celery[s] # <<>>
  /\ LET j == Head(celery[first_step(celery)]) IN
       /\ celery' = [celery EXCEPT ![first_step(celery)] = Tail(@)]
       /\ handed' = Append(handed, j)
       /\ qjob' = [qjob EXCEPT ![j].pc = "taken"]
  /\ UNCHANGED <<dm, rate, sweep, ser, sqlPayVars, sqlVars, payVars, userVars, jobVars, histVars>>

(***************************************************************************)
(* SpecSql: the SQL bot's limit checks and recorded downloads of one user  *)
(* while days pass.                                                        *)
(***************************************************************************)
InitSql ==
  /\ now = 0
  /\ subscription = [u \in Users |-> "free"]
  /\ subscription_expires = [u \in Users |-> NoExpiry]
  /\ downloads_count = [u \in Users |-> [d \in 0..MaxNow |-> 0]]
  /\ InitJobs
  /\ payments = [p \in Payments |-> NewPayment("bronze")]
  /\ approve = [p \in Payments |-> "idle"]
  /\ activated = [p \in Payments |-> FALSE]
  /\ \E plan \in Tiers, end_date \in {NoExpiry, MaxNow} :
       subscriptions = [u \in Users |->
         [NewSubscription(plan, SqlUsedAtStart(plan)) EXCEPT
            !.end_date = IF plan = "free" THEN NoExpiry ELSE end_date]]
  /\ sql_reply = [u \in Users |-> NoReply]
  /\ \E f \in [Payments -> Tiers \ {"free"}] :
       /\ sql_payments = [p \in Payments |-> NewSqlPayment(f[p])]
       /\ sql_confirm = [p \in Payments |-> "none"]
       /\ sql_notified = [p \in Payments |-> NoUser]
  /\ sql_activations = [p \in Payments |-> 0]
  /\ InitSerIdle
  /\ InitSweepIdle
  /\ InitRateIdle
  /\ InitDmIdle
  /\ InitQueueIdle

NextSql ==
  \/ \E u \in Users : SqlHandleDownload(u)
  \/ \E u \in Users : SqlCanDownload(u)
  \/ \E u \in Users : SqlMiddleware(u)
  \/ \E u \in Users : SqlRecordDownload(u)
  \/ \E p \in Payments : confirm_payment(p)
  \/ Tick

SpecSql == InitSql /\ [][NextSql]_vars

(***************************************************************************)
(* SpecQueue: downloads of users of any tiers are queued by concurrently   *)
(* running handlers and handed to workers.                                 *)
(***************************************************************************)
InitQueue ==
  /\ now = 0
  /\ subscription = [u \in Users |-> "free"]
  /\ subscription_expires = [u \in Users |-> NoExpiry]
  /\ downloads_count = [u \in Users |-> [d \in 0..MaxNow |-> 0]]
  /\ InitJobs
  /\ payments = [p \in Payments |-> NewPayment("bronze")]
  /\ approve = [p \in Payments |-> "idle"]
  /\ activated = [p \in Payments |-> FALSE]
  /\ InitSqlIdle
  /\ \E f \in [QJobs -> Tiers] :
       qjob = [j \in QJobs |-> [pc |-> "new", sub |-> f[j], position |-> 0]]
  /\ celery = [s \in priority_steps |-> <<>>]
  /\ handed = <<>>

NextQueue ==
  \/ \E j \in QJobs : QueueAdd(j)
  \/ \E j \in QJobs : QueueApply(j)
  \/ WorkerTake

SpecQueue == InitQueue /\ [][NextQueue]_vars

(***************************************************************************)
(* SpecQueueFair: an unending stream of downloads.  The id of a download   *)
(* a worker has taken is used again for a later download of the same       *)
(* user, and the earlier download leaves the model; workers keep taking    *)
(* messages while there are any.                                           *)
(***************************************************************************)

\* A later press of the download button (download_handler.py:259-301) by a
\* user whose earlier download went to a worker.
QueueAgain(j) ==
  /\ qjob[j].pc = "taken"
  /\ qjob' = [qjob EXCEPT ![j].pc = "new", ![j].position = 0]
  /\ download_queue' = [p \in DOMAIN download_queue |->
       SelectSeq(download_queue[p], LAMBDA k : k # j)]
  /\ handed' = SelectSeq(handed, LAMBDA k : k # j)
  /\ UNCHANGED <<dm, rate, sweep, ser, sqlPayVars, celery, sqlVars, payVars, userVars, histVars,
                 concurrent, downloads_count, downloads, broker, revoked,
                 cb, task, can, url>>

NextQueueFair ==
  \/ \E j \in QJobs : QueueAdd(j)
  \/ \E j \in QJobs : QueueApply(j)
  \/ WorkerTake
  \/ \E j \in QJobs : QueueAgain(j)

\* Celery workers loop on the broker: a message that can be taken is taken.
SpecQueueFair == InitQueue /\ [][NextQueueFair]_vars /\ WF_vars(WorkerTake)

(***************************************************************************)
(* SpecSer: a User or a Payment object is written with to_dict and read    *)
(* back with from_dict.                                                    *)
(***************************************************************************)
InitSer ==
  /\ now = 0
  /\ subscription = [u \in Users |-> "free"]
  /\ subscription_expires = [u \in Users |-> NoExpiry]
  /\ downloads_count = [u \in Users |-> [d \in 0..MaxNow |-> 0]]
  /\ InitJobs
  /\ payments = [p \in Payments |-> NewPayment("bronze")]
  /\ approve = [p \in Payments |-> "idle"]
  /\ activated = [p \in Payments |-> FALSE]
  /\ subscriptions = [u \in Users |-> NewSubscription("free", 0)]
  /\ sql_reply = [u \in Users |-> NoReply]
  /\ InitSqlPayments("bronze")
  /\ InitQueueIdle
  /\ InitSweepIdle
  /\ InitRateIdle
  /\ InitDmIdle
  /\ \/ \E x \in UserObjects :
          ser = [pc |-> "object", cls |-> "User", x |-> x, data |-> Unset, out |-> Unset]
     \/ \E x \in PaymentObjects :
          ser = [pc |-> "object", cls |-> "Payment", x |-> x, data |-> Unset, out |-> Unset]

NextSer == SerToDict \/ SerFromDict

SpecSer == InitSer /\ [][NextSer]_vars

(***************************************************************************)
(* SpecRate: calls of check_rate_limit (redis_client.py:160-172) by one    *)
(* user for one action.  The call suspends at each of its awaits, and      *)
(* updates are handled concurrently (bot.py:74).                           *)
(***************************************************************************)

\* line 163: current = INCR key; a key that does not exist is created with
\* value 1 and no expiry.
RateIncr(c) ==
  /\ rate.call[c].pc = "idle"
  /\ rate' = [rate EXCEPT
       !.value = @ + 1,
       !.call[c].pc = IF rate.value + 1 = 1 THEN "first" ELSE "counted",
       !.call[c].current = rate.value + 1,
       !.call[c].window = rate.window]
  /\ UNCHANGED <<dm, sweep, ser, sqlPayVars, queueVars, sqlVars, payVars, userVars, jobVars, histVars>>

\* lines 165-166: if current == 1: EXPIRE key window.
RateExpire(c) ==
  /\ rate.call[c].pc = "first"
  /\ rate' = [rate EXCEPT
       !.expire = IF rate.value > 0 THEN TRUE ELSE @,
       !.call[c].pc = "counted"]
  /\ UNCHANGED <<dm, sweep, ser, sqlPayVars, queueVars, sqlVars, payVars, userVars, jobVars, histVars>>

\* lines 168-172: if current > limit: return False, TTL key; else True, 0.
\* TTL answers -1 for a key without expiry.
RateReturn(c) ==
  /\ rate.call[c].pc = "counted"
  /\ rate' = [rate EXCEPT
       !.call[c].pc = "done",
       !.call[c].allowed = ~(rate.call[c].current > rate.limit),
       !.call[c].ttl = IF rate.call[c].current > rate.limit
                       THEN (IF rate.expire THEN InWindow ELSE NoTtl) ELSE 0]
  /\ UNCHANGED <<dm, sweep, ser, sqlPayVars, queueVars, sqlVars, payVars, userVars, jobVars, histVars>>

\* The window of the key runs out: Redis removes the key.
RateKeyExpires ==
  /\ rate.expire
  /\ rate.window < MaxWindows
  /\ rate' = [rate EXCEPT !.value = 0, !.expire = FALSE, !.window = @ + 1]
  /\ UNCHANGED <<dm, sweep, ser, sqlPayVars, queueVars, sqlVars, payVars, userVars, jobVars, histVars>>

check_rate_limit(c) == RateIncr(c) \/ RateExpire(c) \/ RateReturn(c)

InitRate ==
  /\ now = 0
  /\ subscription = [u \in Users |-> "free"]
  /\ subscription_expires = [u \in Users |-> NoExpiry]
  /\ downloads_count = [u \in Users |-> [d \in 0..MaxNow |-> 0]]
  /\ InitJobs
  /\ payments = [p \in Payments |-> NewPayment("bronze")]
  /\ approve = [p \in Payments |-> "idle"]
  /\ activated = [p \in Payments |-> FALSE]
  /\ subscriptions = [u \in Users |-> NewSubscription("free", 0)]
  /\ sql_reply = [u \in Users |-> NoReply]
  /\ InitSqlPayments("bronze")
  /\ InitQueueIdle
  /\ InitSerIdle
  /\ InitSweepIdle
  /\ InitDmIdle
  /\ \E limit \in 1..MaxLimit :
       rate = [value |-> 0, expire |-> FALSE, window |-> 0, limit |-> limit,
               call |-> [c \in RateCalls |-> NewCall]]

NextRate ==
  \/ \E c \in RateCalls : check_rate_limit(c)
  \/ RateKeyExpires

SpecRate == InitRate /\ [][NextRate]_vars

(***************************************************************************)
(* SpecDm: the downloads of one user of the SQL bot and the entry          *)
(* active_downloads[user.id] of DownloadManager (src/bot/handlers/         *)
(* download.py).  Updates are handled concurrently (main.py:186).          *)
(***************************************************************************)

\* Downloads are started in the order of their numbers.
DmMayStart(d) == \A e \in Dls : e < d => dm.dl[e] # "idle"

\* start_download lines 199-210: create_task(_download_file(...)) and
\* active_downloads[user.id] = {'task': download_task, ...}; the entry of an
\* earlier download of the user is replaced.
DmStart(d) ==
  /\ dm.dl[d] = "idle"
  /\ DmMayStart(d)
  /\ dm' = [dm EXCEPT !.dl[d] = "running", !.active_downloads = d]
  /\ UNCHANGED <<rate, sweep, ser, sqlPayVars, queueVars, sqlVars, payVars, userVars, jobVars, histVars>>

\* start_download lines 212-239: the awaited task returns, raises or is
\* cancelled, and the finally clause deletes active_downloads[user.id] when
\* the user has an entry.
DmFinally(d) ==
  /\ dm.dl[d] \in {"running", "cancel_sent"}
  /\ dm' = [dm EXCEPT !.dl[d] = "ended", !.active_downloads = NoDl]
  /\ UNCHANGED <<rate, sweep, ser, sqlPayVars, queueVars, sqlVars, payVars, userVars, jobVars, histVars>>

\* cancel_download lines 442-448: the task of the user's entry is cancelled
\* and the entry deleted; the download's handler gets CancelledError at its
\* await and runs its finally clause later.
DmCancel ==
  /\ dm.active_downloads # NoDl
  /\ dm' = [dm EXCEPT
       !.dl[dm.active_downloads] = IF @ = "running" THEN "cancel_sent" ELSE @,
       !.cancelled = dm.active_downloads,
       !.active_downloads = NoDl]
  /\ UNCHANGED <<rate, sweep, ser, sqlPayVars, queueVars, sqlVars, payVars, userVars, jobVars, histVars>>

InitDm ==
  /\ now = 0
  /\ subscription = [u \in Users |-> "free"]
  /\ subscription_expires = [u \in Users |-> NoExpiry]
  /\ downloads_count = [u \in Users |-> [d \in 0..MaxNow |-> 0]]
  /\ InitJobs
  /\ payments = [p \in Payments |-> NewPayment("bronze")]
  /\ approve = [p \in Payments |-> "idle"]
  /\ activated = [p \in Payments |-> FALSE]
  /\ subscriptions = [u \in Users |-> NewSubscription("free", 0)]
  /\ sql_reply = [u \in Users |-> NoReply]
  /\ InitSqlPayments("bronze")
  /\ InitQueueIdle
  /\ InitSerIdle
  /\ InitSweepIdle
  /\ InitRateIdle
  /\ InitDmIdle

NextDm ==
  \/ \E d \in Dls : DmStart(d)
  \/ \E d \in Dls : DmFinally(d)
  \/ DmCancel

SpecDm == InitDm /\ [][NextDm]_vars

(***************************************************************************)
(* SpecGold: the limit checks of both bots for a GOLD user, from every     *)
(* number of downloads already counted today and every number of slots     *)
(* held.                                                                   *)
(***************************************************************************)

\* Downloads counted today: none, the daily limits of the other plans
\* (config.py:62-86, PLAN_LIMITS) and more.
GoldUsed == {0, 5, 50, 150, 151}

InitGold ==
  /\ now = 0
  /\ subscription = [u \in Users |-> "gold"]
  /\ subscription_expires = [u \in Users |-> DaysLeft]
  /\ \E used \in GoldUsed :
       downloads_count = [u \in Users |-> [d \in 0..MaxNow |->
                            IF d = 0 THEN used ELSE 0]]
  /\ \E held \in 0..plans["gold"].concurrent_downloads : InitJobsHolding(held)
  /\ payments = [p \in Payments |-> NewPayment("bronze")]
  /\ approve = [p \in Payments |-> "idle"]
  /\ activated = [p \in Payments |-> FALSE]
  /\ \E used \in GoldUsed :
       subscriptions = [u \in Users |->
         [NewSubscription("gold", used) EXCEPT !.end_date = DaysLeft]]
  /\ sql_reply = [u \in Users |-> NoReply]
  /\ InitSqlPayments("bronze")
  /\ InitSerIdle
  /\ InitSweepIdle
  /\ InitRateIdle
  /\ InitDmIdle
  /\ InitQueueIdle

NextGold ==
  \/ \E j \in Jobs : handle_download_callback(j)
  \/ \E u \in Users : handle_url(u)
  \/ \E u \in Users : SqlHandleDownload(u)
  \/ \E u \in Users : SqlCanDownload(u)
  \/ \E u \in Users : SqlMiddleware(u)

SpecGold == InitGold /\ [][NextGold]_vars

(***************************************************************************)
(* The expiry check as a function of the users collection and the clock.   *)
(***************************************************************************)

\* The documents a user can have: the defaults, or a paid tier with the
\* expiry update_subscription gave it (mongo_client.py:126-138).
StoredUsers ==
  {NewUser} \cup
  {[subscription |-> s, subscription_expires |-> e] :
     s \in Tiers \ {"free"}, e \in 0..(MaxNow + 1)}

InitExpiry ==
  /\ now = 0
  /\ subscription = [u \in Users |-> "free"]
  /\ subscription_expires = [u \in Users |-> NoExpiry]
  /\ downloads_count = [u \in Users |-> [d \in 0..MaxNow |-> 0]]
  /\ InitJobs
  /\ payments = [p \in Payments |-> NewPayment("bronze")]
  /\ approve = [p \in Payments |-> "idle"]
  /\ activated = [p \in Payments |-> FALSE]
  /\ subscriptions = [u \in Users |-> NewSubscription("free", 0)]
  /\ sql_reply = [u \in Users |-> NoReply]
  /\ InitSqlPayments("bronze")
  /\ InitQueueIdle
  /\ InitSerIdle
  /\ InitRateIdle
  /\ InitDmIdle
  /\ \E users \in [SweepUsers -> StoredUsers], t \in 0..MaxNow :
       sweep = [pc |-> "ready", t |-> t, expired_count |-> 0,
                input |-> users, before |-> users, users |-> users]

NextExpiry == SweepRun

SpecExpiry == InitExpiry /\ [][NextExpiry]_vars

(***************************************************************************)
(* Properties of the slot counter, the admission and the job lifecycle.    *)
(***************************************************************************)

\* C1: in every reachable state and for every user the counter
\* concurrent:<user_id> is at least 0 and at most the concurrent-download
\* limit of the user's tier.
C1_CounterWithinTier ==
  \A u \in Users :
    /\ 0 <= concurrent[u]
    /\ concurrent[u] <= plans[subscription[u]].concurrent_downloads

\* Jobs of user u that were admitted and whose slot saw no release yet.
HoldingSlot(u) == {j \in Jobs : Owner(j) = u /\ Admitted(j) /\ decs[j] = 0}

\* C2: of the admission evaluations made at the same time for one FREE user
\* (max_concurrent = 1) at most one is granted: never do two admitted jobs of
\* a FREE user hold an unreleased slot together.
C2_FreeAdmitsOne ==
  \A u \in Users :
    subscription[u] = "free" =>
      Cardinality(HoldingSlot(u)) <= plans["free"].concurrent_downloads

\* Jobs of user u that were admitted, are not yet counted in today's usage
\* and have not failed or been cancelled.
AdmittedUncounted(u) ==
  {j \in Jobs : /\ Owner(j) = u /\ Admitted(j) /\ ~counted[j]
                /\ downloads[j].status \notin {FAILED, CANCELLED}}

\* C3: on a finite-quota tier the downloads counted today plus the admitted
\* downloads still on their way never exceed the daily quota: two requests
\* arriving at quota - 1 are never both admitted.
C3_QuotaReservedAtAdmission ==
  \A u \in Users :
    plans[subscription[u]].daily_limit # -1 =>
      get_user_activity(downloads_count, u, now) + Cardinality(AdmittedUncounted(u))
        <= plans[subscription[u]].daily_limit

\* Jobs of user u for which increment_user_downloads has run.
Counted(u) == {j \in Jobs : Owner(j) = u /\ counted[j]}

JobSettled(j) ==
  /\ task[j].pc \in {"end_ok", "end_fail"}
  /\ ~task[j].del
  /\ ~broker[j]
  /\ can[j].pc \in {"idle", "done"}
  /\ ~can[j].del

\* C4: once a job has reached its end on any path, the decrements of the
\* user's counter made for the job equal the increments made for it.
C4_ReleasesMatchAcquisitions ==
  \A j \in Jobs : JobSettled(j) => decs[j] = incs[j]

\* C6: a cancel of a job that the worker has already marked completed or
\* failed leaves the job's status alone and does not decrement the counter,
\* also when the two run concurrently.
C6_CancelAfterTerminal ==
  [][\A j \in Jobs :
       downloads[j].status \in {COMPLETED, FAILED} =>
         /\ downloads'[j].status # CANCELLED
         /\ ~(can[j].pc = "revoke_sent" /\ can'[j].pc = "done")]_vars

\* Job j is a member of one of the lanes download_queue:<priority>.
InLane(j) ==
  \E p \in DOMAIN download_queue :
    \E i \in 1..Len(download_queue[p]) : download_queue[p][i] = j

\* C7: a job cancelled while it waits in the queue is in no priority lane
\* any more, and no worker starts it afterwards.
C7_CancelledLeavesLane ==
  \A j \in Jobs :
    can[j].res = "success" =>
      /\ ~InLane(j)
      /\ task[j].pc \in {"none", "revoked", "killed", "end_ok", "end_fail"}

\* The status changes of the job state machine (QUEUED is a PENDING download
\* that is in a lane).
StatusStep(s, t) ==
  \/ s = t
  \/ s = "absent" /\ t = PENDING
  \/ s = PENDING /\ t \in {PROCESSING, CANCELLED}
  \/ s = PROCESSING /\ t \in Terminal

\* C8: a download's status moves only pending -> processing -> completed /
\* failed / cancelled (cancelled also from pending), and a terminal status
\* never changes again.
C8_StatusMachine ==
  [][\A j \in Jobs : StatusStep(downloads[j].status, downloads'[j].status)]_vars

\* The tier that is in force for user u: FREE once a paid subscription's
\* expiry has been reached, rewritten or not.
EffectiveTier(u) ==
  IF u \in expired_users(subscription, subscription_expires, now)
    THEN "free" ELSE subscription[u]

\* C9: every admission evaluation of handle_download_callback gives the
\* verdict that the limits of the user's effective tier give.
C9_AdmissionUsesEffectiveTier ==
  [][\A j \in Jobs :
       (cb[j].pc = "idle" /\ cb'[j] # cb[j]) =>
         cb'[j].denied = Verdict(Owner(j), EffectiveTier(Owner(j))).reason]_vars

\* The paid subscription of user u is still running.
StillActive(u) ==
  /\ subscription[u] # "free"
  /\ subscription_expires[u] # NoExpiry
  /\ subscription_expires[u] > now

\* C10: a confirmed payment with duration d applied at time now sets the
\* expiry to the current expiry + d when the subscription is still running,
\* and to now + d when it has expired or the user is free.
C10_RenewalExtends ==
  [][\A p \in Payments :
       (~activated[p] /\ activated'[p]) =>
         \A u \in Users :
           subscription_expires'[u] =
             (IF StillActive(u) THEN subscription_expires[u] ELSE now)
               + plans[payments[p].subscription_type].duration_days]_vars

\* C11: a usage record of an earlier day counts as usage 0 in every check of
\* the daily limit made today: no check answers "daily limit reached" from a
\* record that was last reset before today (SQL row) or while today's Redis
\* count is 0.
C11_DayRollover ==
  [][/\ \A u \in Users :
          (sql_reply'[u] # sql_reply[u] /\ subscriptions[u].last_download_reset < now)
            => sql_reply'[u].answer # "daily_limit"
     /\ \A j \in Jobs :
          (/\ cb[j].pc = "idle" /\ cb'[j] # cb[j]
           /\ get_user_activity(downloads_count, Owner(j), now) = 0)
            => cb'[j].denied # "daily_limit"]_vars

\* C12: a request denied because the video is longer than the plan's
\* max_duration leaves the user's daily download counts as they were.
C12_DurationDenialKeepsQuota ==
  [][\A u \in Users :
       (url[u].pc = "held" /\ url'[u].pc = "idle" /\ url'[u].res = "duration")
         => downloads_count' = downloads_count]_vars

\* A request has just been denied for its duration.
C12_Witness ==
  \E u \in Users : url[u].pc = "idle" /\ url[u].res = "duration"

\* The message of download j waits in the Celery queue.
Waiting(j) == qjob[j].pc = "queued"

\* C13: a worker is never handed a download while the download of a
\* strictly higher tier (gold before silver before bronze before free) is
\* waiting, and the priority numbers order the tiers strictly.
C13_PriorityOrder ==
  [][\A j \in QJobs :
       (qjob[j].pc = "queued" /\ qjob'[j].pc = "taken")
         => \A k \in QJobs :
              Waiting(k) => ~(queue_priority(qjob[k].sub) < queue_priority(qjob[j].sub))]_vars

\* Download a entered its lane before download b did.
LanedBefore(a, b) ==
  /\ qjob[a].sub = qjob[b].sub
  /\ IndexIn(download_queue[queue_priority(qjob[a].sub)], a) # 0
  /\ IndexIn(download_queue[queue_priority(qjob[b].sub)], b) # 0
  /\ IndexIn(download_queue[queue_priority(qjob[a].sub)], a)
       < IndexIn(download_queue[queue_priority(qjob[b].sub)], b)

\* C14: of two downloads in one lane the one that entered the lane first
\* is handed to a worker first, and its queue position is the smaller one
\* while both wait.
C14_FifoInLane ==
  \A a, b \in QJobs :
    LanedBefore(a, b) =>
      /\ qjob[b].pc = "taken" => qjob[a].pc = "taken"
      /\ (Waiting(a) /\ Waiting(b))
           => get_queue_position(download_queue, a) < get_queue_position(download_queue, b)

\* Waiting downloads that the position of download j has to count: those of
\* higher tiers and those ahead of it in its own lane.
Ahead(j) ==
  {k \in QJobs \ {j} :
     /\ Waiting(k)
     /\ \/ queue_priority(qjob[k].sub) < queue_priority(qjob[j].sub)
        \/ LanedBefore(k, j)}

\* C15: the position of a waiting download, as returned to the handler and
\* as get_queue_position computes it, is one more than the number of
\* waiting downloads ahead of it; a download in no lane has no position.
C15_QueuePosition ==
  \A j \in QJobs :
    /\ Waiting(j) =>
         /\ get_queue_position(download_queue, j) = 1 + Cardinality(Ahead(j))
         /\ qjob[j].position = 1 + Cardinality(Ahead(j))
    /\ qjob[j].pc = "new" => get_queue_position(download_queue, j) = 0

\* C16: a cancel requested by someone who is not the download's owner ends
\* with the error answer and writes nothing: the download's document, its
\* lane, the slot counters, the revocations and the task stay as they are,
\* and the cancel never goes on to its writes.
C16_CancelByStranger ==
  /\ [](\A j \in Jobs :
          (can[j].pc # "idle" /\ can[j].by # Owner(j))
            => can[j].pc = "done" /\ can[j].res = "not_found")
  /\ [][\A j \in Jobs :
          (can[j].pc = "idle" /\ can'[j].pc # "idle" /\ can'[j].by # Owner(j))
            => UNCHANGED <<downloads, download_queue, concurrent, revoked,
                           broker, task, downloads_count>>]_vars

\* A stranger's cancel of a download that could be cancelled was refused.
C16_Witness ==
  \E j \in Jobs :
    /\ can[j].pc = "done" /\ can[j].by # Owner(j) /\ can[j].by # NoUser
    /\ Cancellable(downloads[j].status)

\* C17: confirming a pending payment makes it COMPLETED, sets the payer's
\* subscription to the payment's plan and sends the payer the activation
\* message.
C17_ConfirmActivates ==
  [][\A p \in Payments :
       (sql_payments[p].status = PENDING /\ sql_confirm'[p] # sql_confirm[p])
         => /\ sql_payments'[p].status = COMPLETED
            /\ \A u \in Users :
                 /\ subscriptions'[u].plan = sql_payments[p].plan
                 /\ get_user_subscription(subscriptions', u, now)
                 /\ sql_notified'[p] = u]_vars

\* C18: an object read back from its own to_dict() has the field values of
\* the object, and the dictionary holds every enum field as the string
\* value of its member.
C18_RoundTrip ==
  /\ ser.pc \in {"dict", "back"} =>
       /\ ser.cls = "User" => ser.data.subscription = SubscriptionType[ser.x.subscription]
       /\ ser.cls = "Payment" =>
            /\ ser.data.subscription_type = SubscriptionType[ser.x.subscription_type]
            /\ ser.data.status = PaymentStatus[ser.x.status]
  /\ ser.pc = "back" => ser.out = ser.x

\* A stored gold user and a paid payment have been read back.
C18_Witness ==
  /\ ser.pc = "back"
  /\ ser.x["_id"] # NoId
  /\ \/ ser.cls = "User" /\ ser.x.subscription = "SubscriptionType.GOLD"
     \/ ser.cls = "Payment" /\ ser.x.status = "PaymentStatus.PAID"

\* The user's slot counter is at the plan's concurrent_downloads and today's
\* count is at the plan's daily_limit.
AtBothLimits(u, sub) ==
  /\ concurrent[u] >= plans[sub].concurrent_downloads
  /\ plans[sub].daily_limit # -1
  /\ get_user_activity(downloads_count, u, now) >= plans[sub].daily_limit

\* C19: the concurrency limit is checked before the daily quota: a request
\* of a user who is at both limits is denied for the concurrency limit.
C19_ConcurrencyBeforeQuota ==
  [][\A j \in Jobs :
       (/\ cb[j].pc = "idle" /\ cb'[j] # cb[j]
        /\ AtBothLimits(Owner(j), subscription[Owner(j)]))
         => cb'[j].denied = "concurrent"]_vars

\* C20: when an attempt has failed the job holds no slot any more, whether
\* the task is queued again or not, and a retried attempt takes its slot
\* only when check_user_limit admits the user at that moment.
C20_RetryIsNewAdmission ==
  [][\A j \in Jobs :
       /\ (task[j].pc = "o2" /\ task'[j].pc \in {"none", "end_fail"})
            => decs'[j] >= incs'[j]
       /\ (task[j].pc = "proc" /\ task'[j].pc # "proc" /\ task[j].retries > 0)
            => Verdict(Owner(j), subscription[Owner(j)]).ok]_vars

\* C21: cancelling a download whose task is running only records the
\* request: the cancel operation releases no slot while the task has not
\* ended, and the running task is never killed on its behalf.
C21_CooperativeCancel ==
  [][\A j \in Jobs :
       /\ (can[j].pc = "revoke_sent" /\ can'[j].pc = "done") => ~TaskRunning(j)
       /\ TaskRunning(j) => task'[j].pc # "killed"]_vars

\* C22: an admission that ends with a storage failure leaves nothing
\* behind: the slot it took has been given back and no download was counted.
C22_FailedAdmissionLeavesNothing ==
  \A j \in Jobs :
    cb[j].pc = "raised" => (incs[j] = decs[j] /\ ~counted[j])

\* C23: the tier of a download is the one read at its admission: a change
\* of the user's subscription moves nothing in the lanes, and a download is
\* refused for its file size only when the file is above max_file_size of
\* the tier it was admitted under.
C23_TierFrozen ==
  [][/\ subscription' # subscription => download_queue' = download_queue
     /\ \A j \in Jobs :
          (task[j].pc = "proc" /\ task'[j].pc = "f1" /\ task'[j].size # 0)
            => file_too_large(cb[j].sub, task'[j].size)]_vars

\* C24: the expiry check run at a time rewrites to FREE with no expiry
\* exactly the users whose tier is not FREE and whose expiry is at or before
\* that time, leaves every other user as stored, and reports how many it
\* rewrote; run again at the same time it changes nothing and reports 0.
PastExpiry(user, t) ==
  /\ user.subscription # "free"
  /\ user.subscription_expires # NoExpiry
  /\ user.subscription_expires <= t

HigherTier(k, j) == queue_priority(qjob[k].sub) < queue_priority(qjob[j].sub)

\* C25: with workers that keep taking messages, a download whose message
\* waits is eventually handed to a worker, provided that from some point on
\* no download of a strictly higher tier is queued.
C25_EventuallyServed ==
  \A j \in QJobs :
    (<>[][\A k \in QJobs :
            HigherTier(k, j) => ~(qjob[k].pc # "queued" /\ qjob'[k].pc = "queued")]_vars)
      => (Waiting(j) ~> qjob[j].pc = "taken")

\* Without the proviso: every waiting download is eventually handed out.
C25_NoStarvation ==
  \A j \in QJobs : Waiting(j) ~> qjob[j].pc = "taken"

\* A download of a strictly higher tier was handed to a worker and a
\* download of a lower tier after it.
C25_Witness ==
  \E j, k \in QJobs :
    /\ HigherTier(k, j)
    /\ qjob[j].pc = "taken" /\ qjob[k].pc = "taken"
    /\ IndexIn(handed, k) # 0 /\ IndexIn(handed, k) < IndexIn(handed, j)

C27_ActivatedOnce ==
  \A p \in Payments : sql_activations[p] <= 1

\* The DELETE of a release made for user u is executed in this step.
Deletes(u) ==
  \/ url[u].del /\ ~url'[u].del
  \/ \E j \in Jobs :
       /\ Owner(j) = u
       /\ \/ task[j].del /\ ~task'[j].del
          \/ can[j].del /\ ~can'[j].del

\* C29: no step leaves the stored counter of a user negative, and the
\* DELETE of a release never removes a counter that holds an increment made
\* since the DECR of that release.
C29_IncrementNotLost ==
  [][\A u \in Users :
       /\ concurrent'[u] >= 0
       /\ Deletes(u) => concurrent[u] <= 0]_vars

\* C30: a handle_url that took a slot ends with the slot given back: when
\* the handler ends, on any path, the user's counter is one below what it
\* was while the handler held the slot.
C30_UrlReleasesSlot ==
  [][\A u \in Users :
       (url[u].pc = "held" /\ url'[u].pc = "idle")
         => concurrent'[u] = concurrent[u] - 1]_vars

\* C31: a download that a worker has picked up, or that is completed,
\* failed or cancelled, is a member of no lane download_queue:<priority>.
C31_LanesHoldWaitingOnly ==
  \A j \in Jobs :
    downloads[j].status \in {PROCESSING} \cup Terminal => ~InLane(j)

\* C32: the downloads counted in the daily usage are the completed ones: a
\* download whose status is failed or cancelled has not been counted, and a
\* download that ended completed has been.
C32_CountsCompletedOnly ==
  \A j \in Jobs :
    /\ downloads[j].status \in {FAILED, CANCELLED} => ~counted[j]
    /\ (JobSettled(j) /\ downloads[j].status = COMPLETED) => counted[j]

\* Calls that were counted on the key of window w and were allowed.
AllowedIn(w) ==
  {c \in RateCalls :
     rate.call[c].pc = "done" /\ rate.call[c].window = w /\ rate.call[c].allowed}

\* C33: of the calls counted on one key at most limit are allowed, and a
\* call that is denied was counted on a key that carries an expiry: the
\* caller is told a waiting time, never the TTL of a key that does not
\* expire.
C33_RateLimitWindow ==
  /\ \A w \in 0..MaxWindows : Cardinality(AllowedIn(w)) <= rate.limit
  /\ \A c \in RateCalls :
       (rate.call[c].pc = "done" /\ ~rate.call[c].allowed) => rate.call[c].ttl # NoTtl

\* C34: the user's entry in active_downloads is a running download, and
\* every running download of the user is the one the entry refers to, so
\* that a cancel reaches it.
C34_RunningIsCancellable ==
  /\ dm.active_downloads # NoDl => dm.dl[dm.active_downloads] = "running"
  /\ \A d \in Dls : dm.dl[d] = "running" => dm.active_downloads = d

====
